---- MODULE Spec2Model ----
(***************************************************************************)
(* Model of src/31_dic.py: December31Extractor.                            *)
(*                                                                         *)
(* Texts are sequences of one-character strings, offsets are 0-based as in *)
(* Python (the character at offset i is s[i+1]).  The regular expressions  *)
(* of the source are syntax trees evaluated by a backtracking matcher that *)
(* returns the candidate end offsets in the priority order of Python's re. *)
(***************************************************************************)
EXTENDS Integers, Sequences, FiniteSets, TLC

VARIABLES
    patterns,        \* self.patterns of the extractor in use
    json_data,       \* argument of the last process_json_document call
    tried,           \* how the try block of _extract_text_from_json ended
    text,            \* value returned by _extract_text_from_json
    sentences,       \* list returned by _split_into_sentences
    raw_matches,     \* per sentence: `matches` of _find_matches_in_sentence
    kept,            \* per sentence: the raw matches the dedup loop accepted
    unique_matches,  \* per sentence: the list _find_matches_in_sentence returned
    seen_positions,  \* seen_positions as the last dedup loop left it
    results,         \* return value of process_json_document
    outcome,         \* "none", "returned" or "raised" for the last operation
    remembered,      \* the call before the last one, to compare the two
    mode,            \* which operation the behaviour exercises
    files,           \* the batch of the main program: the files the pattern gave
    processed,       \* how many files of the batch the loop has been through
    candidates,      \* the output directory: per base name, the candidates file
    console,         \* the lines the loop printed, one or none per file
    caller_document  \* the caller's document object as the last call left it

vars == <<patterns, json_data, tried, text, sentences, raw_matches, kept,
          unique_matches, seen_positions, results, outcome, remembered, mode,
          files, processed, candidates, console, caller_document>>

----------------------------------------------------------------------------
(* Characters *)

UpperSeq == <<"A","B","C","D","E","F","G","H","I","J","K","L","M",
              "N","O","P","Q","R","S","T","U","V","W","X","Y","Z">>
LowerSeq == <<"a","b","c","d","e","f","g","h","i","j","k","l","m",
              "n","o","p","q","r","s","t","u","v","w","x","y","z">>
DigitSeq == <<"0","1","2","3","4","5","6","7","8","9">>

Range(f) == {f[k] : k \in DOMAIN f}
UpperAZ == Range(UpperSeq)
Digits == Range(DigitSeq)
WordChars == UpperAZ \cup Range(LowerSeq) \cup Digits \cup {"_", "ó"}
SpaceChars == {" ", "\n", "\t"}
Newline == {"\n"}
Terminal == {".", "!", "?"}
DateSep == {"/", "-", "."} \cup SpaceChars

\* str.lower() of one character, as re.IGNORECASE compares
LowerOf == [c \in UpperAZ |-> LowerSeq[CHOOSE k \in DOMAIN UpperSeq : UpperSeq[k] = c]]
Lower(c) == IF c \in UpperAZ THEN LowerOf[c] ELSE c

----------------------------------------------------------------------------
(* Regular expressions: syntax *)

Lit(w) == [t |-> "lit", s |-> w]
Set(cs) == [t |-> "set", cs |-> cs]
AnyChar == [t |-> "any"]
WB == [t |-> "wb"]
LookBehind(cs) == [t |-> "lb", cs |-> cs]
LookAhead(cs) == [t |-> "la", cs |-> cs]
Cat(xs) == [t |-> "cat", xs |-> xs]
Alt(xs) == [t |-> "alt", xs |-> xs]
\* hi = -1 stands for no upper limit
Rep(x, lo, hi, greedy) == [t |-> "rep", x |-> x, lo |-> lo, hi |-> hi, greedy |-> greedy]
Opt(x) == Rep(x, 0, 1, TRUE)
Plus(x) == Rep(x, 1, -1, TRUE)
Star(x) == Rep(x, 0, -1, TRUE)
Lazy(n) == Rep(AnyChar, 0, n, FALSE)

----------------------------------------------------------------------------
(* Regular expressions: matching *)

IsWordAt(s, i) == i >= 0 /\ i < Len(s) /\ s[i + 1] \in WordChars

RECURSIVE Ends(_, _, _), CatEnds(_, _, _, _), CatEach(_, _, _, _, _),
          AltEnds(_, _, _, _), RepEnds(_, _, _, _), RepEach(_, _, _, _, _)

\* The offsets at which node n can end when it starts at offset i of s,
\* in the order in which the backtracking matcher tries them.
Ends(n, s, i) ==
    CASE n.t = "lit" ->
           IF i + Len(n.s) <= Len(s)
              /\ \A k \in 1..Len(n.s) : Lower(s[i + k]) = Lower(n.s[k])
           THEN <<i + Len(n.s)>> ELSE <<>>
      [] n.t = "set" ->
           IF i < Len(s) /\ s[i + 1] \in n.cs THEN <<i + 1>> ELSE <<>>
      [] n.t = "any" ->
           IF i < Len(s) THEN <<i + 1>> ELSE <<>>
      [] n.t = "wb" ->
           IF IsWordAt(s, i - 1) # IsWordAt(s, i) THEN <<i>> ELSE <<>>
      [] n.t = "lb" ->
           IF i >= 1 /\ s[i] \in n.cs THEN <<i>> ELSE <<>>
      [] n.t = "la" ->
           IF i < Len(s) /\ s[i + 1] \in n.cs THEN <<i>> ELSE <<>>
      [] n.t = "cat" -> CatEnds(n.xs, 1, s, i)
      [] n.t = "alt" -> AltEnds(n.xs, 1, s, i)
      [] n.t = "rep" -> RepEnds(n, 0, s, i)

CatEnds(xs, k, s, i) ==
    IF k > Len(xs) THEN <<i>>
    ELSE CatEach(xs, k, s, Ends(xs[k], s, i), 1)

CatEach(xs, k, s, es, j) ==
    IF j > Len(es) THEN <<>>
    ELSE CatEnds(xs, k + 1, s, es[j]) \o CatEach(xs, k, s, es, j + 1)

AltEnds(xs, k, s, i) ==
    IF k > Len(xs) THEN <<>>
    ELSE Ends(xs[k], s, i) \o AltEnds(xs, k + 1, s, i)

RepEnds(n, cnt, s, i) ==
    LET stop == IF cnt >= n.lo THEN <<i>> ELSE <<>>
        more == IF n.hi >= 0 /\ cnt >= n.hi THEN <<>>
                ELSE RepEach(n, cnt, s, Ends(n.x, s, i), 1)
    IN IF n.greedy THEN more \o stop ELSE stop \o more

RepEach(n, cnt, s, es, j) ==
    IF j > Len(es) THEN <<>>
    ELSE RepEnds(n, cnt + 1, s, es[j]) \o RepEach(n, cnt, s, es, j + 1)

Min(S) == CHOOSE x \in S : \A y \in S : x <= y

\* The end of the match that starts at offset i, or -1: the first candidate in
\* priority order.  A concatenation stops at the first candidate of each part
\* with which the rest of the pattern matches, as the backtracking matcher does.
RECURSIVE FirstCat(_, _, _, _), FirstOf(_, _, _, _, _)
FirstCat(xs, k, s, i) ==
    IF k > Len(xs) THEN i
    ELSE FirstOf(xs, k, s, Ends(xs[k], s, i), 1)

FirstOf(xs, k, s, es, j) ==
    IF j > Len(es) THEN -1
    ELSE LET e == FirstCat(xs, k + 1, s, es[j])
         IN IF e >= 0 THEN e ELSE FirstOf(xs, k, s, es, j + 1)

FirstEnd(re, s, i) ==
    IF re.t = "cat" THEN FirstCat(re.xs, 1, s, i)
    ELSE IF Ends(re, s, i) = <<>> THEN -1
    ELSE Ends(re, s, i)[1]

\* pattern.finditer(s): the non-overlapping matches, leftmost first.  A match
\* attempt at an offset does not depend on the matches found before it, so
\* the attempts are made once: at[i + 1] is the end of the match at offset i.
\* The search for the next match resumes where the last one ended.
RECURSIVE FindFrom(_, _)
FindFrom(at, pos) ==
    LET starts == {i \in pos..(Len(at) - 1) : at[i + 1] >= 0}
    IN IF starts = {} THEN <<>>
       ELSE LET i == Min(starts)
                e == at[i + 1]
            IN <<[start |-> i, end |-> e]>> \o FindFrom(at, IF e > i THEN e ELSE i + 1)

FindIter(re, s) == FindFrom([n \in 1..(Len(s) + 1) |-> FirstEnd(re, s, n - 1)], 0)

\* s[a:b] of Python
Slice(s, a, b) == SubSeq(s, a + 1, b)

----------------------------------------------------------------------------
(* Words of the pattern catalog *)

W31 == <<"3","1">>
W12 == <<"1","2">>
Wde == <<"d","e">>
Wdic == <<"d","i","c">>
Wdec == <<"d","e","c">>
Wdiciembre == <<"d","i","c","i","e","m","b","r","e">>
Wdecember == <<"d","e","c","e","m","b","e","r">>
Wtreinta == <<"t","r","e","i","n","t","a">>
Wy == <<"y">>
Wuno == <<"u","n","o">>
Wthirty == <<"t","h","i","r","t","y">>
Wfirst == <<"f","i","r","s","t">>

Space == Set(SpaceChars)
Digit == Set(Digits)
Dot == Set({"."})
Sep == Set(DateSep)
MonthFull == Alt(<<Lit(Wdiciembre), Lit(Wdecember)>>)
MonthAbbr == Alt(<<Cat(<<Lit(Wdic), Opt(Dot)>>), Cat(<<Lit(Wdec), Opt(Dot)>>)>>)
MonthAny == Alt(<<Lit(Wdiciembre), Lit(Wdecember),
                  Cat(<<Lit(Wdic), Opt(Dot)>>), Cat(<<Lit(Wdec), Opt(Dot)>>)>>)
Written31 == Alt(<<Cat(<<Lit(Wtreinta), Plus(Space), Lit(Wy), Plus(Space), Lit(Wuno)>>),
                   Cat(<<Lit(Wthirty), Opt(Set(SpaceChars \cup {"-"})), Lit(Wfirst)>>)>>)
Year4 == Cat(<<Alt(<<Lit(<<"1","9">>), Lit(<<"2","0">>)>>), Digit, Digit>>)
Year2or4 == Alt(<<Cat(<<Digit, Digit>>), Cat(<<Digit, Digit, Digit, Digit>>)>>)

\* The regular expression written at a line of _build_patterns, compiled with
\* re.IGNORECASE | re.DOTALL (literals compare case-insensitively, the dot
\* matches every character).
Compile(line) ==
    CASE line = 21 -> Cat(<<WB, Lit(W31), WB, Lazy(25), WB, MonthFull, WB>>)
      [] line = 22 -> Cat(<<WB, MonthFull, WB, Lazy(25), WB, Lit(W31), WB>>)
      [] line = 25 -> Cat(<<WB, Written31, WB, Lazy(25), WB, MonthFull, WB>>)
      [] line = 26 -> Cat(<<WB, MonthFull, WB, Lazy(25), WB, Written31, WB>>)
      [] line = 31 -> Cat(<<WB, Lit(W31), WB, Lazy(15), WB, MonthAbbr, WB>>)
      [] line = 32 -> Cat(<<WB, MonthAbbr, WB, Lazy(15), WB, Lit(W31), WB>>)
      [] line = 37 -> Cat(<<WB, Lit(W31), Sep, Lit(W12), WB>>)
      [] line = 38 -> Cat(<<WB, Lit(W12), Sep, Lit(W31), WB>>)
      [] line = 43 -> Cat(<<WB, Lit(W31), WB, Lazy(30), WB, MonthAny, WB,
                            Lazy(20), WB, Year4, WB>>)
      [] line = 44 -> Cat(<<WB, MonthAny, WB, Lazy(15), WB, Lit(W31), WB,
                            Lazy(15), WB, Year4, WB>>)
      [] line = 47 -> Cat(<<WB, Lit(W31), Sep, Lit(W12), Sep, Year2or4, WB>>)
      [] line = 48 -> Cat(<<WB, Lit(W12), Sep, Lit(W31), Sep, Year2or4, WB>>)
      [] line = 53 -> Cat(<<WB, Lit(W31), Plus(Space), Lit(Wde), Plus(Space),
                            Lit(Wdiciembre), WB>>)
      [] line = 54 -> Cat(<<WB, Lit(W31), Plus(Space),
                            Opt(Cat(<<Lit(Wde), Plus(Space)>>)), Lit(Wdiciembre), WB>>)
      [] line = 55 -> Cat(<<WB, Lit(Wdiciembre), Plus(Space), Lit(W31), WB>>)

\* the catalog without the numeric patterns of the category with year
BuildPatternsWithoutNumericYear ==
    << [category |-> "nombre_completo_flexible", pattern_list |-> <<21, 22, 25, 26>>],
       [category |-> "nombre_abreviado_flexible", pattern_list |-> <<31, 32>>],
       [category |-> "numerico", pattern_list |-> <<37, 38>>],
       [category |-> "con_año", pattern_list |-> <<43, 44>>],
       [category |-> "patron_estricto", pattern_list |-> <<53, 54, 55>>] >>

\* the catalog with its categories in the opposite order
BuildPatternsReversed ==
    << [category |-> "patron_estricto", pattern_list |-> <<53, 54, 55>>],
       [category |-> "con_año", pattern_list |-> <<43, 44, 47, 48>>],
       [category |-> "numerico", pattern_list |-> <<37, 38>>],
       [category |-> "nombre_abreviado_flexible", pattern_list |-> <<31, 32>>],
       [category |-> "nombre_completo_flexible", pattern_list |-> <<21, 22, 25, 26>>] >>

\* The catalog of _build_patterns: categories, and patterns within a category,
\* in declared order (a dict keeps insertion order).  A pattern is named by
\* the source line that writes it.
BuildPatterns ==
    << [category |-> "nombre_completo_flexible", pattern_list |-> <<21, 22, 25, 26>>],
       [category |-> "nombre_abreviado_flexible", pattern_list |-> <<31, 32>>],
       [category |-> "numerico", pattern_list |-> <<37, 38>>],
       [category |-> "con_año", pattern_list |-> <<43, 44, 47, 48>>],
       [category |-> "patron_estricto", pattern_list |-> <<53, 54, 55>>] >>

----------------------------------------------------------------------------
(* Strings *)

StartsWithAt(s, w, i) ==
    i + Len(w) <= Len(s) /\ \A k \in 1..Len(w) : s[i + k] = w[k]

\* `w in s` for two strings
Contains(s, w) == \E i \in 0..Len(s) : StartsWithAt(s, w, i)

\* s.replace(old, new): the occurrences of old, left to right, not overlapping
RECURSIVE ReplaceFrom(_, _, _, _)
ReplaceFrom(s, old, new, i) ==
    LET occ == {j \in i..Len(s) : StartsWithAt(s, old, j)}
    IN IF occ = {} THEN SubSeq(s, i + 1, Len(s))
       ELSE SubSeq(s, i + 1, Min(occ)) \o new
            \o ReplaceFrom(s, old, new, Min(occ) + Len(old))

Replace(s, old, new) == ReplaceFrom(s, old, new, 0)

\* s.strip()
RECURSIVE LStrip(_), RStrip(_)
LStrip(s) == IF s # <<>> /\ Head(s) \in SpaceChars THEN LStrip(Tail(s)) ELSE s
RStrip(s) ==
    IF s # <<>> /\ s[Len(s)] \in SpaceChars THEN RStrip(SubSeq(s, 1, Len(s) - 1)) ELSE s
Strip(s) == RStrip(LStrip(s))

\* "\n".join(parts) for a list of strings
RECURSIVE JoinNL(_)
JoinNL(parts) ==
    IF parts = <<>> THEN <<>>
    ELSE IF Len(parts) = 1 THEN parts[1]
    ELSE parts[1] \o <<"\n">> \o JoinNL(Tail(parts))

----------------------------------------------------------------------------
(* _split_into_sentences *)

abbreviations ==
    << <<"d","i","c">>, <<"D","i","c">>, <<"e","n","e">>, <<"f","e","b">>,
       <<"m","a","r">>, <<"a","b","r">>, <<"m","a","y">>, <<"j","u","n">>,
       <<"j","u","l">>, <<"a","g","o">>, <<"s","e","p">>, <<"o","c","t">>,
       <<"n","o","v">>, <<"S","r">>, <<"S","r","a">>, <<"D","r">>, <<"D","r","a">> >>

\* a sentinel that is the period itself
DotPlain == <<".">>

\* line 101: the sentinel written in place of a protected period
DOT == <<"<","<","<","D","O","T",">",">",">">>

\* the loop of lines 99-101: one replace per abbreviation, in list order
RECURSIVE ProtectFrom(_, _)
ProtectFrom(protected_text, k) ==
    IF k > Len(abbreviations) THEN protected_text
    ELSE ProtectFrom(Replace(protected_text, abbreviations[k] \o <<".">>,
                             abbreviations[k] \o DOT), k + 1)

Protect(txt) == ProtectFrom(txt, 1)

\* (?<=[.!?])\s+(?=[A-Z]) | (?<=[.!?])\s*\n+ | \n\n+
sentence_endings ==
    Alt(<< Cat(<<LookBehind(Terminal), Plus(Space), LookAhead(UpperAZ)>>),
           Cat(<<LookBehind(Terminal), Star(Space), Plus(Set(Newline))>>),
           Cat(<<Set(Newline), Plus(Set(Newline))>>) >>)

\* pattern.split(s): the pieces of s between the matches of the pattern
RECURSIVE Pieces(_, _, _, _)
Pieces(s, ms, k, from) ==
    IF k > Len(ms) THEN <<Slice(s, from, Len(s))>>
    ELSE <<Slice(s, from, ms[k].start)>> \o Pieces(s, ms, k + 1, ms[k].end)

RegexSplit(re, s) == Pieces(s, FindIter(re, s), 1, 0)

\* the filter of line 114 left out
NotBlankUnchecked(s) == TRUE

\* line 114: `if s.strip()`
NotBlank(s) == Strip(s) # <<>>

\* line 114: keep the fragments that are not blank, restoring the periods
RECURSIVE Restore(_)
Restore(frags) ==
    IF frags = <<>> THEN <<>>
    ELSE (IF NotBlank(Head(frags))
          THEN <<Replace(Head(frags), DOT, <<".">>)>> ELSE <<>>)
         \o Restore(Tail(frags))

SplitIntoSentences(txt) == Restore(RegexSplit(sentence_endings, Protect(txt)))

----------------------------------------------------------------------------
(* _find_matches_in_sentence *)

\* lines 127-132: the matches of one pattern, as appended to `matches`; the
\* field pattern, which the dicts of the source do not have, records the
\* source line of the pattern that found the match
RECURSIVE Tagged(_, _, _, _, _)
Tagged(sentence, category, pattern, ms, k) ==
    IF k > Len(ms) THEN <<>>
    ELSE << [text |-> Slice(sentence, ms[k].start, ms[k].end),
             category |-> category,
             position |-> <<ms[k].start, ms[k].end>>,
             pattern |-> pattern] >>
         \o Tagged(sentence, category, pattern, ms, k + 1)

\* lines 125-132: categories in catalog order, patterns in list order
RECURSIVE MatchesOfList(_, _, _, _), MatchesFrom(_, _, _)
MatchesOfList(sentence, category, pattern_list, k) ==
    IF k > Len(pattern_list) THEN <<>>
    ELSE Tagged(sentence, category, pattern_list[k],
                FindIter(Compile(pattern_list[k]), sentence), 1)
         \o MatchesOfList(sentence, category, pattern_list, k + 1)

MatchesFrom(pats, sentence, c) ==
    IF c > Len(pats) THEN <<>>
    ELSE MatchesOfList(sentence, pats[c].category, pats[c].pattern_list, 1)
         \o MatchesFrom(pats, sentence, c + 1)

\* the matches sorted by where they start
RECURSIVE InsertByStart(_, _)
InsertByStart(match, sorted) ==
    IF sorted = <<>> THEN <<match>>
    ELSE IF match.position[1] < Head(sorted).position[1] THEN <<match>> \o sorted
    ELSE <<Head(sorted)>> \o InsertByStart(match, Tail(sorted))

RECURSIVE ByStart(_)
ByStart(ms) == IF ms = <<>> THEN <<>> ELSE InsertByStart(Head(ms), ByStart(Tail(ms)))

RawMatchesByStart(pats, sentence) == ByStart(MatchesFrom(pats, sentence, 1))

RawMatches(pats, sentence) == MatchesFrom(pats, sentence, 1)

\* seen_positions kept on the extractor instead of reset in every call
SeenInitStale == seen_positions

\* line 136: seen_positions starts empty in every call
SeenInit == {}

\* the membership test of line 140 left out
IsNewUnchecked(pos_key, seen) == TRUE

\* line 140: a match is kept when its span has not been seen
IsNew(pos_key, seen) == pos_key \notin seen

\* lines 138-145: the raw matches that are kept, in the order of `matches`
RECURSIVE Dedup(_, _, _)
Dedup(matches, k, seen) ==
    IF k > Len(matches) THEN [kept |-> <<>>, seen |-> seen]
    ELSE LET pos_key == <<matches[k].position[1], matches[k].position[2]>>
         IN IF IsNew(pos_key, seen)
            THEN LET rest == Dedup(matches, k + 1, seen \cup {pos_key})
                 IN [kept |-> <<matches[k]>> \o rest.kept, seen |-> rest.seen]
            ELSE Dedup(matches, k + 1, seen)

\* lines 142-145: an entry of unique_matches carries text and category only
RECURSIVE Entries(_)
Entries(ms) ==
    IF ms = <<>> THEN <<>>
    ELSE <<[text |-> Head(ms).text, category |-> Head(ms).category]>>
         \o Entries(Tail(ms))

\* the locals of one run of _find_matches_in_sentence when it returns
FindMatchesRun(pats, sentence) ==
    LET matches == RawMatches(pats, sentence)
        loop == Dedup(matches, 1, SeenInit)
    IN [matches |-> matches,
        kept |-> loop.kept,
        seen_positions |-> loop.seen,
        unique_matches |-> Entries(loop.kept)]

FindMatchesInSentence(pats, sentence) == FindMatchesRun(pats, sentence).unique_matches

----------------------------------------------------------------------------
(* Document representations: the values json.load can produce *)

JStr(s) == [k |-> "str", v |-> s]
JNum(n) == [k |-> "num", v |-> n]
JNull == [k |-> "null"]
JList(xs) == [k |-> "list", v |-> xs]
\* a dict: its items in insertion order, keys distinct
JMap(items) == [k |-> "map", v |-> items]
Item(key, val) == [key |-> key, val |-> val]

Kpages == <<"p","a","g","e","s">>
Kdocument == <<"d","o","c","u","m","e","n","t">>
Kparagraphs == <<"p","a","r","a","g","r","a","p","h","s">>
Ktext == <<"t","e","x","t">>
Kcontent == <<"c","o","n","t","e","n","t">>

HasKey(m, key) == \E n \in 1..Len(m.v) : m.v[n].key = key
Lookup(m, key) == m.v[CHOOSE n \in 1..Len(m.v) : m.v[n].key = key].val

\* `key in x`: "T", "F", or "E" when it raises TypeError
IsIn(key, x) ==
    CASE x.k = "map" -> IF HasKey(x, key) THEN "T" ELSE "F"
      [] x.k = "str" -> IF Contains(x.v, key) THEN "T" ELSE "F"
      [] x.k = "list" ->
           IF \E n \in 1..Len(x.v) : x.v[n].k = "str" /\ x.v[n].v = key
           THEN "T" ELSE "F"
      [] OTHER -> "E"

\* x[key] for a string key raises unless x is a dict that has the key
CanIndex(x, key) == x.k = "map" /\ HasKey(x, key)

\* `for e in x`: the elements of a list, the characters of a string, the keys
\* of a dict; anything else raises TypeError
CanIter(x) == x.k \in {"list", "str", "map"}
Iter(x) ==
    CASE x.k = "list" -> x.v
      [] x.k = "str" -> [n \in 1..Len(x.v) |-> JStr(<<x.v[n]>>)]
      [] x.k = "map" -> [n \in 1..Len(x.v) |-> JStr(x.v[n].key)]

\* the decimal digits of a natural number
RECURSIVE Decimal(_)
Decimal(n) ==
    IF n < 10 THEN <<DigitSeq[n + 1]>>
    ELSE Decimal(n \div 10) \o <<DigitSeq[(n % 10) + 1]>>

\* repr() of a string: single quotes, unless it holds a single quote and no
\* double quote; backslash, newline, tab and the delimiter are escaped
RECURSIVE Escaped(_, _)
Escaped(s, q) ==
    IF s = <<>> THEN <<>>
    ELSE (CASE Head(s) = "\\" -> <<"\\", "\\">>
            [] Head(s) = "\n" -> <<"\\", "n">>
            [] Head(s) = "\t" -> <<"\\", "t">>
            [] Head(s) = q -> <<"\\", q>>
            [] OTHER -> <<Head(s)>>)
         \o Escaped(Tail(s), q)

ReprStr(s) ==
    LET q == IF (\E n \in 1..Len(s) : s[n] = "'") /\ ~(\E n \in 1..Len(s) : s[n] = "\"")
             THEN "\"" ELSE "'"
    IN <<q>> \o Escaped(s, q) \o <<q>>

\* repr() of a value, as str() of a dict or a list renders it
RECURSIVE Repr(_), ReprElems(_, _), ReprItems(_, _)
Repr(x) ==
    CASE x.k = "str" -> ReprStr(x.v)
      [] x.k = "num" -> Decimal(x.v)
      [] x.k = "null" -> <<"N","o","n","e">>
      [] x.k = "list" -> <<"[">> \o ReprElems(x.v, 1) \o <<"]">>
      [] x.k = "map" -> <<"{">> \o ReprItems(x.v, 1) \o <<"}">>

ReprElems(xs, n) ==
    IF n > Len(xs) THEN <<>>
    ELSE (IF n > 1 THEN <<",", " ">> ELSE <<>>) \o Repr(xs[n]) \o ReprElems(xs, n + 1)

ReprItems(items, n) ==
    IF n > Len(items) THEN <<>>
    ELSE (IF n > 1 THEN <<",", " ">> ELSE <<>>)
         \o ReprStr(items[n].key) \o <<":", " ">> \o Repr(items[n].val)
         \o ReprItems(items, n + 1)

\* str(x): a string is itself, every other value is its repr
Str(x) == IF x.k = "str" THEN x.v ELSE Repr(x)

----------------------------------------------------------------------------
(* _extract_text_from_json *)

\* outcome of the try block (lines 179-216): the shape branch it entered
\* ("none" when a shape test itself raised), and what it returned
Raised(branch) == [raised |-> TRUE, branch |-> branch, val |-> JNull]
Returned(branch, v) == [raised |-> FALSE, branch |-> branch, val |-> v]

\* "\n".join(text_parts) raises TypeError unless every part is a string
CanJoin(text_parts) == \A n \in 1..Len(text_parts) : text_parts[n].k = "str"
Joined(text_parts) == JStr(JoinNL([n \in 1..Len(text_parts) |-> text_parts[n].v]))
Join(branch, text_parts) ==
    IF CanJoin(text_parts) THEN Returned(branch, Joined(text_parts)) ELSE Raised(branch)

\* lines 183-187: the text of each page, dict with "text" first, then string
RECURSIVE PageParts(_)
PageParts(pages) ==
    IF pages = <<>> THEN <<>>
    ELSE LET page == Head(pages)
         IN (IF page.k = "map" /\ HasKey(page, Ktext) THEN <<Lookup(page, Ktext)>>
             ELSE IF page.k = "str" THEN <<page>>
             ELSE <<>>)
            \o PageParts(Tail(pages))

\* line 193: [p["text"] for p in paragraphs if "text" in p]
ParaRaises(paragraphs) ==
    \E n \in 1..Len(paragraphs) :
        \/ IsIn(Ktext, paragraphs[n]) = "E"
        \/ IsIn(Ktext, paragraphs[n]) = "T" /\ ~CanIndex(paragraphs[n], Ktext)

RECURSIVE ParaParts(_)
ParaParts(paragraphs) ==
    IF paragraphs = <<>> THEN <<>>
    ELSE (IF IsIn(Ktext, Head(paragraphs)) = "T"
          THEN <<Lookup(Head(paragraphs), Ktext)>> ELSE <<>>)
         \o ParaParts(Tail(paragraphs))

\* the elements of a top-level list value collected at every depth
RECURSIVE ItemPartsDeep(_)
ItemPartsDeep(value) ==
    IF value = <<>> THEN <<>>
    ELSE LET item == Head(value)
         IN (IF item.k = "str" THEN <<item>>
             ELSE IF item.k = "map" /\ HasKey(item, Ktext) THEN <<Lookup(item, Ktext)>>
             ELSE IF item.k = "list" THEN ItemPartsDeep(item.v)
             ELSE <<>>)
            \o ItemPartsDeep(Tail(value))

\* lines 211-215: the elements of one top-level list value
RECURSIVE ItemParts(_)
ItemParts(value) ==
    IF value = <<>> THEN <<>>
    ELSE LET item == Head(value)
         IN (IF item.k = "str" THEN <<item>>
             ELSE IF item.k = "map" /\ HasKey(item, Ktext) THEN <<Lookup(item, Ktext)>>
             ELSE <<>>)
            \o ItemParts(Tail(value))

\* lines 207-215: the top-level items in key order, one level deep
RECURSIVE FallbackParts(_)
FallbackParts(items) ==
    IF items = <<>> THEN <<>>
    ELSE LET value == Head(items).val
         IN (IF value.k = "str" THEN <<value>>
             ELSE IF value.k = "list" THEN ItemParts(value.v)
             ELSE <<>>)
            \o FallbackParts(Tail(items))

PagesBranch(json_data_) ==
    IF ~CanIndex(json_data_, Kpages) THEN Raised("pages")
    ELSE IF ~CanIter(Lookup(json_data_, Kpages)) THEN Raised("pages")
    ELSE Join("pages", PageParts(Iter(Lookup(json_data_, Kpages))))

ParagraphsBranch(json_data_) ==
    LET document == Lookup(json_data_, Kdocument)
    IN IF ~CanIndex(document, Kparagraphs) THEN Raised("paragraphs")
       ELSE LET paragraphs == Lookup(document, Kparagraphs)
            IN IF ~CanIter(paragraphs) THEN Raised("paragraphs")
               ELSE IF ParaRaises(Iter(paragraphs)) THEN Raised("paragraphs")
               ELSE Join("paragraphs", ParaParts(Iter(paragraphs)))

FlatBranch(json_data_, branch, key) ==
    IF CanIndex(json_data_, key) THEN Returned(branch, Lookup(json_data_, key))
    ELSE Raised(branch)

FallbackBranch(json_data_) ==
    IF json_data_.k # "map" THEN Raised("fallback")
    ELSE Join("fallback", FallbackParts(json_data_.v))

\* line 191: "document" in json_data and "paragraphs" in json_data["document"];
\* "T", "F", or "E" when one of the two tests raises
HasParagraphs(json_data_) ==
    IF IsIn(Kdocument, json_data_) # "T" THEN IsIn(Kdocument, json_data_)
    ELSE IF ~CanIndex(json_data_, Kdocument) THEN "E"
    ELSE IsIn(Kparagraphs, Lookup(json_data_, Kdocument))

\* the try block with the flat shapes tested before the collections
TryExtractFlatFirst(json_data_) ==
    IF IsIn(Ktext, json_data_) = "E" THEN Raised("none")
    ELSE IF IsIn(Ktext, json_data_) = "T" THEN FlatBranch(json_data_, "text", Ktext)
    ELSE IF IsIn(Kcontent, json_data_) = "T" THEN FlatBranch(json_data_, "content", Kcontent)
    ELSE IF IsIn(Kpages, json_data_) = "T" THEN PagesBranch(json_data_)
    ELSE IF HasParagraphs(json_data_) = "E" THEN Raised("none")
    ELSE IF HasParagraphs(json_data_) = "T" THEN ParagraphsBranch(json_data_)
    ELSE FallbackBranch(json_data_)

\* the try block, lines 179-216: the first shape present, in the order
\* pages, document.paragraphs, text, content, fallback
TryExtract(json_data_) ==
    IF IsIn(Kpages, json_data_) = "E" THEN Raised("none")
    ELSE IF IsIn(Kpages, json_data_) = "T" THEN PagesBranch(json_data_)
    ELSE IF HasParagraphs(json_data_) = "E" THEN Raised("none")
    ELSE IF HasParagraphs(json_data_) = "T" THEN ParagraphsBranch(json_data_)
    ELSE IF IsIn(Ktext, json_data_) = "T" THEN FlatBranch(json_data_, "text", Ktext)
    ELSE IF IsIn(Kcontent, json_data_) = "T" THEN FlatBranch(json_data_, "content", Kcontent)
    ELSE FallbackBranch(json_data_)

\* an exception absorbed and nothing returned in place of the text
OnExceptionEmpty(json_data_, try) == JStr(<<>>)

\* lines 218-221: an exception is absorbed and str(json_data) returned
OnException(json_data_, try) == JStr(Str(json_data_))

ExtractTextFromJson(json_data_) ==
    LET try == TryExtract(json_data_)
    IN IF try.raised THEN OnException(json_data_, try) ELSE try.val

----------------------------------------------------------------------------
(* extract_sentences_with_date, process_json_document *)

\* the test of line 83 left out
ReportedAlways(matches) == TRUE

\* line 83: a sentence is reported when it has a match
Reported(matches) == matches # <<>>

\* lines 81-87: runs[n] is the run of _find_matches_in_sentence on sents[n]
RECURSIVE SentenceResults(_, _, _)
SentenceResults(sents, runs, n) ==
    IF n > Len(sents) THEN <<>>
    ELSE (IF Reported(runs[n].unique_matches)
          THEN <<[sentence |-> Strip(sents[n]), matches |-> runs[n].unique_matches]>>
          ELSE <<>>)
         \o SentenceResults(sents, runs, n + 1)

\* the locals of extract_sentences_with_date when it returns
ExtractRun(pats, txt) ==
    LET sents == SplitIntoSentences(txt)
        runs == [n \in 1..Len(sents) |-> FindMatchesRun(pats, sents[n])]
    IN [sentences |-> sents, runs |-> runs, results |-> SentenceResults(sents, runs, 1)]

ExtractSentencesWithDate(pats, txt) == ExtractRun(pats, txt).results

NoResults == [total_sentences_found |-> 0, sentences |-> <<>>]

\* a catalog whose first category has gone to the end
CatalogRotated(pats) == Tail(pats) \o <<Head(pats)>>

\* lines 125-127: the loops read self.patterns and the compiled patterns;
\* no statement of the class writes to them after __init__
CatalogAfterCall(pats) == pats

\* lines 181-221: the resolver tests, subscripts and iterates json_data and
\* renders it with str(); no statement writes to it or to a value inside it
DocumentAfterCall(json_data_) == json_data_

\* lines 160-168, with the locals of the calls made on the way.  A text that
\* is not a string has no replace method: line 101 raises AttributeError and
\* nothing on the way up catches it.
ProcessRun(pats, json_data_) ==
    LET txt == ExtractTextFromJson(json_data_)
    IN IF txt.k # "str"
       THEN [outcome |-> "raised", text |-> txt, sentences |-> <<>>, runs |-> <<>>,
             results |-> NoResults]
       ELSE LET run == ExtractRun(pats, txt.v)
            IN [outcome |-> "returned", text |-> txt, sentences |-> run.sentences,
                runs |-> run.runs,
                results |-> [total_sentences_found |-> Len(run.results),
                             sentences |-> run.results]]

ProcessJsonDocument(pats, json_data_) ==
    [outcome |-> ProcessRun(pats, json_data_).outcome,
     results |-> ProcessRun(pats, json_data_).results]

----------------------------------------------------------------------------
(* Inputs *)

\* bounds of the input sets
MaxTokens == 3
MaxPieces == 4

RECURSIVE Concat(_)
Concat(ws) == IF ws = <<>> THEN <<>> ELSE Head(ws) \o Concat(Tail(ws))

Words(T, n) == UNION {[1..m -> T] : m \in 1..n}

Chars31deDiciembre ==
    <<"3","1"," ","d","e"," ","d","i","c","i","e","m","b","r","e">>
CharsDe2025 == <<" ","d","e"," ","2","0","2","5">>
Chars3112 == <<"3","1","/","1","2">>
CharsSlash2025 == <<"/","2","0","2","5">>
Chars1231 == <<"1","2","/","3","1">>
CharsDiciembre31 == <<"d","i","c","i","e","m","b","r","e"," ","3","1">>
CharsDic31 == <<"D","i","c","."," ","3","1">>
Chars31dic == <<"3","1"," ","d","i","c",".">>
CharsTreinta ==
    <<"T","r","e","i","n","t","a"," ","y"," ","u","n","o"," ","d","e"," ",
      "d","i","c","i","e","m","b","r","e">>
CharsVigencia == <<"V","i","g","e","n","c","i","a",":"," ">>

\* sentences for _find_matches_in_sentence: up to MaxTokens date fragments, and
\* one sentence for each remaining kind of pattern
MatchTokens ==
    {Chars31deDiciembre, CharsDe2025, Chars3112, CharsSlash2025, Chars1231, <<" ">>}
SentenceInputs ==
    {Concat(ws) : ws \in Words(MatchTokens, MaxTokens)}
    \cup {CharsDiciembre31, CharsDic31, Chars31dic, CharsTreinta,
          CharsDiciembre31 \o CharsDe2025,
          CharsVigencia \o Chars3112 \o CharsSlash2025 \o <<".">>,
          Chars3112 \o <<"/">> \o Chars3112 \o <<"/","2","5">>,
          Chars1231 \o <<" ">> \o Chars1231 \o <<"-","2","0","2","5">>}

\* "Entrega prevista en dic. 2025 para el Sr. Gómez."
CharsEntrega ==
    <<"E","n","t","r","e","g","a"," ","p","r","e","v","i","s","t","a"," ",
      "e","n"," ","d","i","c","."," ","2","0","2","5"," ","p","a","r","a"," ",
      "e","l"," ","S","r","."," ","G","ó","m","e","z",".">>

\* texts for _split_into_sentences: up to MaxPieces pieces, and every
\* protected abbreviation with its period in front of each kind of boundary
SplitTokens ==
    { <<"d","i","c",".">>, <<"S","r",".">>, <<" ">>, <<"\n">>, <<"A">>, <<"a">>,
      <<".">>, DOT }
AbbrBefore == { <<>>, <<"a","."," ">>, <<"\n">> }
AbbrAfter == { <<>>, <<" ","A">>, <<"\n">>, <<"\n","A">>, <<" ","\n"," ","A">>, <<" ","a">> }
AbbrTexts ==
    {pre \o abbreviations[n] \o <<".">> \o post :
        n \in 1..Len(abbreviations), pre \in AbbrBefore, post \in AbbrAfter}
TextInputs ==
    {Concat(ws) : ws \in Words(SplitTokens, MaxPieces)} \cup AbbrTexts \cup {CharsEntrega}
    \cup { <<"a", ".", " ", "É", "l">>, <<"a", ".", "\n", "É", "l">>,
           <<"a", "!", " ", "A", "?", " ", "a">>, <<"a", "\n", "A", "\n", "\n", "A">> }

----------------------------------------------------------------------------
(* The batch loop of the main program, lines 238-263 *)

Kdoc_id == <<"d","o","c","_","i","d">>

\* a file that json.load cannot parse
Unreadable == [k |-> "unreadable"]

\* a candidates file: not there, opened for writing and left empty, or
\* holding the dict of lines 253-258
NoFile == [k |-> "absent"]
EmptyFile == [k |-> "empty"]
Dumped(file, results_) ==
    [k |-> "dumped",
     source_file |-> file.path,
     doc_id |-> IF HasKey(file.data, Kdoc_id) THEN Lookup(file.data, Kdoc_id)
                ELSE JStr(<<"u","n","k","n","o","w","n">>),
     total_sentences |-> results_.total_sentences_found,
     sentences |-> results_.sentences]

\* line 248: the base name of a path, which names the candidates file
BaseName(path) == path[2]

\* lines 239-263 for one file: the output directory it leaves and the line
\* it prints ("none" when it prints nothing).  The candidates file is opened
\* for writing, and so emptied, before json_data.get is evaluated; get
\* raises AttributeError when the document is not a dict.
ProcessFile(file, candidates_) ==
    IF file.data = Unreadable THEN [candidates |-> candidates_, line |-> "error"]
    ELSE LET run == ProcessJsonDocument(BuildPatterns, file.data)
         IN IF run.outcome = "raised"
            THEN [candidates |-> candidates_, line |-> "error"]
            ELSE IF run.results.total_sentences_found = 0
            THEN [candidates |-> candidates_, line |-> "none"]
            ELSE IF file.data.k # "map"
            THEN [candidates |-> [candidates_ EXCEPT ![BaseName(file.path)] = EmptyFile],
                  line |-> "error"]
            ELSE [candidates |-> [candidates_ EXCEPT ![BaseName(file.path)] =
                                     Dumped(file, run.results)],
                  line |-> "ok"]

\* lines 260 and 263: what the loop prints for a file
Printed(file, line) ==
    IF line = "none" THEN <<>> ELSE <<[file |-> file.path, line |-> line]>>

\* the loop of line 238 from file k on
RECURSIVE BatchFrom(_, _, _, _)
BatchFrom(files_, k, candidates_, console_) ==
    IF k > Len(files_) THEN [candidates |-> candidates_, console |-> console_]
    ELSE LET step == ProcessFile(files_[k], candidates_)
         IN BatchFrom(files_, k + 1, step.candidates,
                      console_ \o Printed(files_[k], step.line))

----------------------------------------------------------------------------
(* State machine *)

NotTried == [raised |-> FALSE, branch |-> "none", val |-> JNull]
NoCall == [json_data |-> JNull, outcome |-> "none", results |-> NoResults]

\* the output directory before the loop
BaseNames == {"x", "y"}
NoCandidates == [b \in BaseNames |-> NoFile]

\* a freshly constructed extractor (line 13) that has not been used
Idle ==
    /\ patterns = BuildPatterns
    /\ tried = NotTried
    /\ raw_matches = <<>>
    /\ kept = <<>>
    /\ unique_matches = <<>>
    /\ seen_positions = {}
    /\ results = NoResults
    /\ outcome = "none"
    /\ remembered = NoCall
    /\ processed = 0
    /\ candidates = NoCandidates
    /\ console = <<>>
    /\ caller_document = JNull

\* what the runs of _find_matches_in_sentence, one per sentence, leave behind
Matched(runs) ==
    /\ raw_matches' = [n \in 1..Len(runs) |-> runs[n].matches]
    /\ kept' = [n \in 1..Len(runs) |-> runs[n].kept]
    /\ unique_matches' = [n \in 1..Len(runs) |-> runs[n].unique_matches]
    /\ seen_positions' =
          IF runs = <<>> THEN seen_positions ELSE runs[Len(runs)].seen_positions

\* _find_matches_in_sentence applied to one sentence
InitMatch ==
    /\ Idle
    /\ files = <<>>
    /\ mode = "match"
    /\ json_data = JNull
    /\ text = JNull
    /\ sentences \in {<<s>> : s \in SentenceInputs}

FindMatches ==
    /\ mode = "match"
    /\ outcome = "none"
    /\ \E run \in {FindMatchesRun(patterns, sentences[1])} : Matched(<<run>>)
    /\ outcome' = "returned"
    /\ UNCHANGED <<patterns, json_data, tried, text, sentences, results, remembered, mode>>
    /\ UNCHANGED <<files, processed, candidates, console, caller_document>>

SpecMatch == InitMatch /\ [][FindMatches]_vars

\* _split_into_sentences applied to one text
InitSplit ==
    /\ Idle
    /\ files = <<>>
    /\ mode = "split"
    /\ json_data = JNull
    /\ text \in {JStr(t) : t \in TextInputs}
    /\ sentences = <<>>

Split ==
    /\ mode = "split"
    /\ outcome = "none"
    /\ sentences' = SplitIntoSentences(text.v)
    /\ outcome' = "returned"
    /\ UNCHANGED <<patterns, json_data, tried, text, raw_matches, kept, unique_matches,
                   seen_positions, results, remembered, mode>>
    /\ UNCHANGED <<files, processed, candidates, console, caller_document>>

SpecSplit == InitSplit /\ [][Split]_vars

\* _extract_text_from_json applied to one document
Kfoo == <<"f","o","o">>
Kbar == <<"b","a","r">>
Sa == <<"a">>
Sb == <<"b",".">>

MaxItems == 2

Words0(T, n) == UNION {[1..m -> T] : m \in 0..n}

Leaves == {JStr(Sa), JNum(5), JNull}
Elements ==
    Leaves \cup
    { JStr(Ktext), JMap(<<>>), JMap(<<Item(Ktext, JStr(Sb))>>),
      JMap(<<Item(Ktext, JNum(5))>>), JList(<<JStr(Sb)>>) }
Lists == {JList(xs) : xs \in Words0(Elements, MaxItems)}
Values ==
    Leaves \cup Lists
    \cup {JMap(<<Item(Kparagraphs, v)>>) : v \in Leaves \cup Lists}
    \cup {JStr(Kparagraphs), JList(<<JStr(Kparagraphs)>>), JMap(<<Item(Ktext, JStr(Sb))>>)}
SmallValues ==
    { JStr(Sa), JNum(5), JList(<<>>), JList(<<JMap(<<Item(Ktext, JStr(Sb))>>)>>),
      JMap(<<Item(Kparagraphs, JList(<<JMap(<<Item(Ktext, JStr(Sb))>>)>>))>>) }
TopKeys == {Kpages, Kdocument, Ktext, Kcontent, Kfoo, Kbar}
ResolverInputs ==
    {JMap(<<Item(key, v)>>) : key \in TopKeys, v \in Values}
    \cup UNION {{JMap(<<Item(k1, v1), Item(k2, v2)>>) :
                    k2 \in TopKeys \ {k1}, v1 \in SmallValues, v2 \in SmallValues} :
                 k1 \in TopKeys}
    \cup Leaves
    \cup {JMap(<<>>), JList(<<>>), JList(<<JStr(Kpages)>>), JStr(Kpages), JStr(Ktext)}

InitResolve ==
    /\ Idle
    /\ files = <<>>
    /\ mode = "resolve"
    /\ json_data \in ResolverInputs
    /\ text = JNull
    /\ sentences = <<>>

Resolve ==
    /\ mode = "resolve"
    /\ outcome = "none"
    /\ tried' = TryExtract(json_data)
    /\ text' = ExtractTextFromJson(json_data)
    /\ outcome' = "returned"
    /\ UNCHANGED <<patterns, json_data, sentences, raw_matches, kept, unique_matches,
                   seen_positions, results, remembered, mode>>
    /\ UNCHANGED <<files, processed, candidates, console, caller_document>>

SpecResolve == InitResolve /\ [][Resolve]_vars

\* process_json_document called again and again
CharsNo == <<"N","o",".">>
CharsFin == <<"F","i","n",".">>
Chars3112dot == Chars3112 \o <<".">>
Chars1231pad == <<" ">> \o Chars1231 \o <<" ">>
Chars311225dot == Chars3112 \o <<"/","2","5",".">>
CharsNo3112 == CharsNo \o <<" ">> \o Chars3112

Documents ==
    { JMap(<<Item(Kpages, JList(<<JStr(CharsNo), JStr(Chars3112dot), JStr(CharsFin),
                                   JStr(Chars1231pad)>>))>>),
      JMap(<<Item(Kpages, JList(<<>>)), Item(Ktext, JStr(Chars3112))>>),
      JMap(<<Item(Kpages, JList(<<JMap(<<Item(Ktext, JStr(Chars311225dot))>>),
                                   JStr(CharsNo)>>))>>),
      JMap(<<Item(Kdocument,
                  JMap(<<Item(Kparagraphs,
                              JList(<<JMap(<<Item(Ktext, JStr(Chars31dic))>>),
                                      JMap(<<Item(Ktext, JStr(CharsNo))>>)>>))>>))>>),
      JMap(<<Item(Ktext, JStr(Chars31deDiciembre))>>),
      JMap(<<Item(Ktext, JNum(5))>>),
      JMap(<<Item(Ktext, JList(<<JStr(Chars3112)>>))>>),
      JMap(<<Item(Kcontent, JNull)>>),
      JMap(<<Item(Kcontent, JStr(CharsNo3112))>>),
      JMap(<<Item(Kfoo, JStr(CharsNo)),
             Item(Kbar, JList(<<JMap(<<Item(Ktext, JStr(Chars31dic))>>)>>))>>),
      JMap(<<Item(Kpages, JNum(5)), Item(Ktext, JStr(Chars3112))>>),
      JNum(5) }

Init ==
    /\ Idle
    /\ files = <<>>
    /\ mode = "pipeline"
    /\ json_data = JNull
    /\ text = JNull
    /\ sentences = <<>>

\* a call of process_json_document on the extractor in use; remembered holds
\* one of the calls made before it, with its document, outcome and result
Call(d) ==
    \E run \in {ProcessRun(patterns, d)} :
       /\ mode = "pipeline"
       /\ json_data' = d
       /\ tried' = TryExtract(d)
       /\ text' = run.text
       /\ sentences' = run.sentences
       /\ Matched(run.runs)
       /\ outcome' = run.outcome
       /\ results' = run.results
       /\ remembered' \in {remembered,
                           [json_data |-> json_data, outcome |-> outcome, results |-> results]}
       /\ patterns' = CatalogAfterCall(patterns)
       /\ caller_document' = DocumentAfterCall(d)
       /\ UNCHANGED <<mode, files, processed, candidates, console>>

\* line 243: a new extractor is built and used from then on; nothing is left
\* of the runs of the old one
Construct ==
    /\ mode = "pipeline"
    /\ patterns' = BuildPatterns
    /\ seen_positions' = {}
    /\ UNCHANGED <<json_data, tried, text, sentences, raw_matches, kept, unique_matches,
                   results, outcome, remembered, mode>>
    /\ UNCHANGED <<files, processed, candidates, console, caller_document>>

Next ==
    \/ \E d \in Documents : Call(d)
    \/ Construct

Spec == Init /\ [][Next]_vars

\* the main program run on a batch of files
MaxFiles == 3
Paths == {<<"a", "x">>, <<"b", "x">>, <<"a", "y">>}
FileData ==
    { Unreadable,
      JMap(<<Item(Ktext, JStr(Chars3112))>>),
      JMap(<<Item(Kdoc_id, JNum(5)), Item(Kcontent, JStr(Chars1231))>>),
      JMap(<<Item(Ktext, JStr(CharsNo))>>),
      JMap(<<Item(Ktext, JNum(5))>>),
      JStr(Chars3112) }
Batches ==
    {fs \in UNION {[1..n -> [path : Paths, data : FileData]] : n \in 1..MaxFiles} :
        \A i, j \in 1..Len(fs) : fs[i].path = fs[j].path => i = j}

InitBatch ==
    /\ Idle
    /\ mode = "batch"
    /\ files \in Batches
    /\ json_data = JNull
    /\ text = JNull
    /\ sentences = <<>>

\* one turn of the loop of line 238
NextFile ==
    /\ mode = "batch"
    /\ processed < Len(files)
    /\ \E step \in {ProcessFile(files[processed + 1], candidates)} :
          /\ candidates' = step.candidates
          /\ console' = console \o Printed(files[processed + 1], step.line)
    /\ processed' = processed + 1
    /\ UNCHANGED <<patterns, json_data, tried, text, sentences, raw_matches, kept,
                   unique_matches, seen_positions, results, outcome, remembered, mode,
                   files, caller_document>>

SpecBatch == InitBatch /\ [][NextFile]_vars

----------------------------------------------------------------------------
(* Properties *)

\* C1: in the list _find_matches_in_sentence returns, every span among the
\* raw matches is represented at most once; the returned entries are the
\* accepted matches, one entry each, in the same order.
C1_NoTwoMatchesShareASpan ==
    \A n \in 1..Len(kept) :
        /\ \A r \in 1..Len(raw_matches[n]) :
              Cardinality({i \in 1..Len(kept[n]) :
                              kept[n][i].position = raw_matches[n][r].position}) <= 1
        /\ Len(unique_matches[n]) = Len(kept[n])
        /\ \A i \in 1..Len(kept[n]) :
              /\ unique_matches[n][i].text = kept[n][i].text
              /\ unique_matches[n][i].category = kept[n][i].category

\* a sentence in which two patterns reported the same span and one was dropped
C1_Witness ==
    /\ mode = "match"
    /\ outcome = "returned"
    /\ \E i, j \in 1..Len(raw_matches[1]) :
          i < j /\ raw_matches[1][i].position = raw_matches[1][j].position
    /\ Len(unique_matches[1]) < Len(raw_matches[1])

\* the order of the categories as the catalog declares them
CategoryOrder ==
    <<"nombre_completo_flexible", "nombre_abreviado_flexible", "numerico",
      "con_año", "patron_estricto">>

\* C2: the match kept for a span carries the first category, in catalog
\* order, that produced that span; every span that a pattern produced is
\* kept, so two spans that overlap without being identical are both kept.
C2_FirstCategoryWins ==
    \A n \in 1..Len(kept) :
        /\ \A i \in 1..Len(kept[n]) :
              kept[n][i].category =
                 CategoryOrder[Min({c \in 1..Len(CategoryOrder) :
                     \E r \in 1..Len(raw_matches[n]) :
                         /\ raw_matches[n][r].position = kept[n][i].position
                         /\ raw_matches[n][r].category = CategoryOrder[c]})]
        /\ \A r \in 1..Len(raw_matches[n]) :
              \E i \in 1..Len(kept[n]) :
                  kept[n][i].position = raw_matches[n][r].position

\* one span reported by two categories, and two kept spans that overlap
C2_Witness ==
    /\ mode = "match"
    /\ outcome = "returned"
    /\ \E i, j \in 1..Len(raw_matches[1]) :
          /\ raw_matches[1][i].position = raw_matches[1][j].position
          /\ raw_matches[1][i].category # raw_matches[1][j].category
    /\ \E i, j \in 1..Len(kept[1]) :
          /\ kept[1][i].position # kept[1][j].position
          /\ kept[1][i].position[1] < kept[1][j].position[2]
          /\ kept[1][j].position[1] < kept[1][i].position[2]

\* C3: the sentences process_json_document reports are the sentences of the
\* segmenter that have a match, each once, in the segmenter's order, in their
\* trimmed form and with their matches; total_sentences_found is their count.
C3_SentencesWithMatchesInOrder ==
    (mode = "pipeline" /\ outcome = "returned") =>
        LET with == {n \in 1..Len(sentences) : unique_matches[n] # <<>>}
        IN /\ Len(results.sentences) = Cardinality(with)
           /\ results.total_sentences_found = Len(results.sentences)
           /\ \A n \in with :
                 LET rank == Cardinality({m \in with : m <= n})
                 IN /\ results.sentences[rank].sentence = Strip(sentences[n])
                    /\ results.sentences[rank].matches = unique_matches[n]

\* a document of four sentences of which the second and the fourth are reported
C3_Witness ==
    /\ mode = "pipeline"
    /\ outcome = "returned"
    /\ Len(sentences) = 4
    /\ unique_matches[1] = <<>>
    /\ unique_matches[3] = <<>>
    /\ Len(results.sentences) = 2
    /\ results.sentences[2].sentence = Chars1231

\* C4: process_json_document never raises, whatever the document.
C4_NeverRaises == outcome # "raised"

\* the texts that a collection of entries contributes, in its order: the
\* "text" of an entry that is a mapping with one and, where plain strings
\* count, the entry itself when it is a string
RECURSIVE EntryTexts(_, _)
EntryTexts(entries, strings) ==
    IF entries = <<>> THEN <<>>
    ELSE (IF Head(entries).k = "map" /\ HasKey(Head(entries), Ktext)
          THEN <<Lookup(Head(entries), Ktext).v>>
          ELSE IF strings /\ Head(entries).k = "str" THEN <<Head(entries).v>>
          ELSE <<>>)
         \o EntryTexts(Tail(entries), strings)

\* the first shape that a mapping carries, in the order pages,
\* document.paragraphs, text, content, and the fallback when it carries none
FirstShape(d) ==
    IF HasKey(d, Kpages) THEN "pages"
    ELSE IF /\ HasKey(d, Kdocument)
            /\ Lookup(d, Kdocument).k = "map"
            /\ HasKey(Lookup(d, Kdocument), Kparagraphs) THEN "paragraphs"
    ELSE IF HasKey(d, Ktext) THEN "text"
    ELSE IF HasKey(d, Kcontent) THEN "content"
    ELSE "fallback"

\* C5: when the resolver reads a mapping without an exception, the shape it
\* resolves is the first one present in the order pages, document.paragraphs,
\* text, content, fallback, and the text comes from that shape alone: the
\* entries of the pages or of the paragraphs joined by newlines in their
\* order, or the value of the text or content field.
C5_FirstShapeWins ==
    (mode = "resolve" /\ outcome = "returned" /\ json_data.k = "map" /\ ~tried.raised) =>
        /\ tried.branch = FirstShape(json_data)
        /\ FirstShape(json_data) = "pages" =>
              text = JStr(JoinNL(EntryTexts(Iter(Lookup(json_data, Kpages)), TRUE)))
        /\ FirstShape(json_data) = "paragraphs" =>
              text = JStr(JoinNL(EntryTexts(
                         Iter(Lookup(Lookup(json_data, Kdocument), Kparagraphs)), FALSE)))
        /\ FirstShape(json_data) = "text" => text = Lookup(json_data, Ktext)
        /\ FirstShape(json_data) = "content" => text = Lookup(json_data, Kcontent)

\* a document with an empty pages collection and a text field resolves to
\* the empty text
C5_Witness ==
    /\ mode = "resolve"
    /\ outcome = "returned"
    /\ json_data.k = "map"
    /\ HasKey(json_data, Kpages)
    /\ Lookup(json_data, Kpages) = JList(<<>>)
    /\ HasKey(json_data, Ktext)
    /\ Lookup(json_data, Ktext).k = "str"
    /\ ~tried.raised
    /\ text = JStr(<<>>)

\* C6: when an exception is raised while the resolver examines its input,
\* the resolver still returns, and what it returns is the rendering of the
\* whole input as a string, whatever had been collected before.
C6_ExceptionYieldsRendering ==
    (mode = "resolve" /\ outcome = "returned" /\ tried.raised) =>
        text = JStr(Str(json_data))

\* the second paragraph raises after the first one gave its text
C6_Witness ==
    /\ mode = "resolve"
    /\ outcome = "returned"
    /\ tried.raised
    /\ tried.branch = "paragraphs"
    /\ json_data = JMap(<<Item(Kdocument, JMap(<<Item(Kparagraphs,
                       JList(<<JMap(<<Item(Ktext, JStr(Sb))>>), JNum(5)>>))>>))>>)
    /\ text.k = "str"
    /\ Len(text.v) > Len(Sb)

\* the text with the period of every protected abbreviation written as a
\* character that ends no sentence
NeutralDots(t) ==
    [i \in 1..Len(t) |->
        IF /\ t[i] = "."
           /\ \E n \in 1..Len(abbreviations) :
                 /\ i > Len(abbreviations[n])
                 /\ SubSeq(t, i - Len(abbreviations[n]), i - 1) = abbreviations[n]
        THEN "_" ELSE t[i]]

\* the pieces of the text between the boundaries that remain when the
\* periods of the protected abbreviations end no sentence
PiecesApartFromAbbreviations(t) ==
    Pieces(t, FindIter(sentence_endings, NeutralDots(t)), 1, 0)

\* C7: the period of a protected abbreviation causes no split: the segmenter
\* returns the non-blank pieces that the text has when those periods end no
\* sentence (each with the sentinel token read as a period), and the sentence
\* "Entrega prevista en dic. 2025 para el Sr. Gómez." comes back whole.
C7_AbbreviationPeriodNeverSplits ==
    (mode = "split" /\ outcome = "returned") =>
        /\ sentences =
              LET whole == SelectSeq(PiecesApartFromAbbreviations(text.v),
                                     LAMBDA p : Strip(p) # <<>>)
              IN [n \in 1..Len(whole) |-> Replace(whole[n], <<"<","<","<","D","O","T",">",">",">">>, <<".">>)]
        /\ text.v = CharsEntrega => sentences = <<CharsEntrega>>

\* "a. Sr. A": one boundary after "a.", none after "Sr."
C7_Witness ==
    /\ mode = "split"
    /\ outcome = "returned"
    /\ text.v = <<"a","."," ","S","r","."," ","A">>
    /\ sentences = << <<"a",".">>, <<"S","r","."," ","A">> >>

RECURSIVE TopLevelTexts(_)
TopLevelTexts(items) ==
    IF items = <<>> THEN <<>>
    ELSE (IF Head(items).val.k = "str" THEN <<Head(items).val.v>>
          ELSE IF Head(items).val.k = "list" THEN EntryTexts(Head(items).val.v, TRUE)
          ELSE <<>>)
         \o TopLevelTexts(Tail(items))

C10_FragmentsNotBlank ==
    (mode = "split" /\ outcome = "returned") =>
        /\ \A n \in 1..Len(sentences) : Strip(sentences[n]) # <<>>
        /\ Len(PiecesApartFromAbbreviations(text.v)) = 1 =>
              sentences = IF Strip(text.v) = <<>> THEN <<>>
                          ELSE <<Replace(text.v, <<"<","<","<","D","O","T",">",">",">">>, <<".">>)>>

\* a fragment returned with the space it starts with
C10_Witness ==
    /\ mode = "split"
    /\ outcome = "returned"
    /\ text.v = <<" ", "a">>
    /\ sentences = << <<" ", "a">> >>

\* C10 as stated: every fragment is trimmed and not empty, and a text
\* without a boundary comes back as its trimmed form, or as no fragment.
C10_FragmentsTrimmed ==
    (mode = "split" /\ outcome = "returned") =>
        /\ \A n \in 1..Len(sentences) :
              sentences[n] # <<>> /\ sentences[n] = Strip(sentences[n])
        /\ Len(PiecesApartFromAbbreviations(text.v)) = 1 =>
              sentences = IF Strip(text.v) = <<>> THEN <<>> ELSE <<Strip(text.v)>>

\* a numeric date with year stands at offsets a..e of the sentence: 31 and
\* 12 in either order, a separator between them and one after them, then a
\* year of two or four digits; nothing of a word touches it on either side
NumericDateAt(s, a, e) ==
    /\ 0 <= a /\ e <= Len(s) /\ e - a \in {8, 10}
    /\ \/ SubSeq(s, a + 1, a + 2) = <<"3","1">> /\ SubSeq(s, a + 4, a + 5) = <<"1","2">>
       \/ SubSeq(s, a + 1, a + 2) = <<"1","2">> /\ SubSeq(s, a + 4, a + 5) = <<"3","1">>
    /\ s[a + 3] \in {"/", "-", ".", " "}
    /\ s[a + 6] \in {"/", "-", ".", " "}
    /\ \A i \in (a + 7)..e : s[i] \in Digits
    /\ a = 0 \/ s[a] \notin WordChars
    /\ e = Len(s) \/ s[e + 1] \notin WordChars

C12_FailureContained ==
    (mode = "batch" /\ processed = Len(files)) =>
        LET sound == SelectSeq(files, LAMBDA f : ProcessFile(f, NoCandidates).line # "error")
            alone == BatchFrom(sound, 1, NoCandidates, <<>>)
        IN /\ SelectSeq(console, LAMBDA c : c.line # "error") = alone.console
           /\ \A n \in 1..Len(sound) :
                 ProcessFile(sound[n], NoCandidates).line = "ok" =>
                    candidates[BaseName(sound[n].path)] =
                       alone.candidates[BaseName(sound[n].path)]

\* C13: the matches of a sentence come in the order in which the dedup loop
\* accepted them: each is the first raw match of its span, and of two of
\* them the earlier one comes from an earlier category, or from an earlier
\* pattern of the same category, or from the same pattern further left (the
\* patterns stand in the source in their catalog order, so their line
\* numbers compare as they do); the entries returned follow that order.
C13_MatchesInAcceptanceOrder ==
    (mode = "match" /\ outcome = "returned") =>
        /\ \A i \in 1..Len(kept[1]) :
              kept[1][i].pattern =
                 Min({raw_matches[1][r].pattern : r \in
                        {q \in 1..Len(raw_matches[1]) :
                            raw_matches[1][q].position = kept[1][i].position}})
        /\ \A i, j \in 1..Len(kept[1]) :
              i < j =>
                 /\ (CHOOSE c \in 1..Len(CategoryOrder) : CategoryOrder[c] = kept[1][i].category)
                       <= (CHOOSE c \in 1..Len(CategoryOrder) :
                              CategoryOrder[c] = kept[1][j].category)
                 /\ \/ kept[1][i].pattern < kept[1][j].pattern
                    \/ /\ kept[1][i].pattern = kept[1][j].pattern
                       /\ kept[1][i].position[1] < kept[1][j].position[1]
        /\ unique_matches[1] =
              [i \in 1..Len(kept[1]) |->
                  [text |-> kept[1][i].text, category |-> kept[1][i].category]]

\* a match that starts later in the sentence comes before one that starts
\* earlier
C13_Witness ==
    /\ mode = "match"
    /\ outcome = "returned"
    /\ \E i, j \in 1..Len(kept[1]) :
          /\ i < j
          /\ kept[1][i].position[1] > kept[1][j].position[1]
          /\ unique_matches[1][i].text = kept[1][i].text
          /\ unique_matches[1][j].text = kept[1][j].text

\* the upper-case letters: those of A-Z and the accented ones of Spanish
UpperCaseLetters == UpperAZ \cup {"Á", "É", "Í", "Ó", "Ú", "Ü", "Ñ"}

\* the three kinds of boundary: terminal punctuation, whitespace and an
\* upper-case letter after it; terminal punctuation and, after whitespace if
\* any, one or more line breaks; two or more line breaks
ThreeBoundaries ==
    Alt(<< Cat(<<LookBehind(Terminal), Plus(Space), LookAhead(UpperCaseLetters)>>),
           Cat(<<LookBehind(Terminal), Star(Space), Plus(Set(Newline))>>),
           Cat(<<Set(Newline), Plus(Set(Newline))>>) >>)

\* C14: the segmenter cuts the protected text at the three kinds of boundary
\* and nowhere else: it returns the pieces between those boundaries that are
\* not blank, with the sentinel read as a period.
C14_SplitsAtTheThreeBoundaries ==
    (mode = "split" /\ outcome = "returned") =>
        sentences =
           LET whole == SelectSeq(RegexSplit(ThreeBoundaries, Protect(text.v)),
                                  LAMBDA p : Strip(p) # <<>>)
           IN [n \in 1..Len(whole) |->
                  Replace(whole[n], <<"<","<","<","D","O","T",">",">",">">>, <<".">>)]

\* C15: every sentence the segmenter returns stands in the text it was
\* given, character for character, as one contiguous stretch.
C15_SentencesAreSubstrings ==
    (mode = "split" /\ outcome = "returned") =>
        \A n \in 1..Len(sentences) :
            \E i \in 0..(Len(text.v) - Len(sentences[n])) :
                SubSeq(text.v, i + 1, i + Len(sentences[n])) = sentences[n]

====
